---------------------------- MODULE Spec2Model ----------------------------
(***************************************************************************)
(* A model of app.py, the Streamlit GSTR-1 Excel processor.                *)
(*                                                                         *)
(* The state is the form's widgets (company code and the four uploaded     *)
(* files), st.session_state (processed, outputs), what the last script run *)
(* displayed (message, download buttons) and the values the last run of    *)
(* the "Process Files" handler left in its variables.  Every interaction   *)
(* reruns the script from the top; an action is one such rerun.            *)
(*                                                                         *)
(* Values: a spreadsheet cell or DataFrame value is a record [t, n, s]     *)
(* with t the kind ("num", "str", "nan" for pandas' NaN, "none" for an     *)
(* empty openpyxl cell, "formula" for a formula cell), n the number and s  *)
(* the text.  Column names and messages are strings.                       *)
(***************************************************************************)
EXTENDS Integers, Sequences, FiniteSets, TLC

VARIABLES
    pivot_api,      \* what the pivot names of lines 6-7, 188-213 do in the installed libraries
    company_code,   \* st.text_input("Company Code")
    sd_file,        \* st.file_uploader("Upload SD File")
    sr_file,        \* st.file_uploader("Upload SR File")
    tb_file,        \* st.file_uploader("Upload TB File")
    gl_file,        \* st.file_uploader("Upload GL Dump File")
    processed,      \* st.session_state.processed
    outputs,        \* st.session_state.outputs: file name -> workbook
    message,        \* what the last run showed with st.error / st.success
    downloads,      \* the download buttons the last run rendered (file names)
    run,            \* the handler's variables as the last Process run left them
    completed       \* history: some Process run reached line 228

vars == <<pivot_api, company_code, sd_file, sr_file, tb_file, gl_file,
          processed, outputs, message, downloads, run, completed>>

----------------------------------------------------------------------------
(* Strings *)

UpperLetters == "ABCDEFGHIJKLMNOPQRSTUVWXYZ"
LowerLetters == "abcdefghijklmnopqrstuvwxyz"
Digits == "0123456789"

CharAt(s, i) == SubSeq(s, i, i)

\* The characters of s, each with its first position in s.
Positions(s) ==
    [c \in {CharAt(s, i) : i \in 1..Len(s)} |->
        CHOOSE i \in 1..Len(s) : CharAt(s, i) = c /\ \A j \in 1..(i - 1) : CharAt(s, j) # c]

UpperPositions == Positions(UpperLetters)
DigitPositions == Positions(Digits)

\* The position of character c in the alphabet, 0 for any other character.
LetterIndex(c) == IF c \in DOMAIN UpperPositions THEN UpperPositions[c] ELSE 0

\* The value of the digit c plus one, 0 for any other character.
DigitIndex(c) == IF c \in DOMAIN DigitPositions THEN DigitPositions[c] ELSE 0

LowerChar(c) == IF LetterIndex(c) > 0 THEN CharAt(LowerLetters, LetterIndex(c)) ELSE c

\* The least element of a non-empty set of numbers.
Least(S) == CHOOSE i \in S : \A j \in S : i <= j

RECURSIVE Lower(_)
\* str.lower(): every capital letter is replaced, from the first one on.
Lower(s) ==
    LET capitals == {i \in 1..Len(s) : LetterIndex(CharAt(s, i)) > 0} IN
    IF capitals = {} THEN s
    ELSE LET i == Least(capitals) IN
            SubSeq(s, 1, i - 1) \o LowerChar(CharAt(s, i)) \o Lower(SubSeq(s, i + 1, Len(s)))

\* Python's `k in s` for strings.
Contains(s, k) ==
    \E t \in {s}, u \in {k} :
        \E i \in 1..(Len(t) - Len(u) + 1) : SubSeq(t, i, i + Len(u) - 1) = u

\* str.startswith
StartsWith(s, p) == Len(s) >= Len(p) /\ SubSeq(s, 1, Len(p)) = p

IsSpace(c) == c \in {" ", "\t"}

RECURSIVE LStrip(_)
LStrip(s) ==
    IF Len(s) > 0 /\ IsSpace(CharAt(s, 1)) THEN LStrip(SubSeq(s, 2, Len(s))) ELSE s

RECURSIVE RStrip(_)
RStrip(s) ==
    IF Len(s) > 0 /\ IsSpace(CharAt(s, Len(s)))
    THEN RStrip(SubSeq(s, 1, Len(s) - 1)) ELSE s

\* str.strip()
Strip(s) == RStrip(LStrip(s))

RECURSIVE CollapseSpaces(_)
\* re.sub(r"\s+", " ", s): every run of whitespace becomes one space.
CollapseSpaces(s) ==
    LET blanks == {i \in 1..Len(s) : IsSpace(CharAt(s, i))} IN
    IF blanks = {} THEN s
    ELSE LET i == Least(blanks) IN
            SubSeq(s, 1, i - 1) \o " " \o CollapseSpaces(LStrip(SubSeq(s, i, Len(s))))

NormalizeName(name) == CollapseSpaces(Strip(name))

\* normalize_columns(df): the column index is replaced, the rows are kept.
normalize_columns(df) ==
    [df EXCEPT !.columns = [i \in 1..Len(df.columns) |-> NormalizeName(df.columns[i])]]

----------------------------------------------------------------------------
(* Results of calls that may raise: [ok, val, err], err the exception's str(). *)

\* str(KeyError(m)) is repr(m): the message in single quotes.
KeyErrorStr(m) == "'" \o m \o "'"

\* Whether column name col holds every keyword, as line 26 tests it.
MatchesAll(col, keywords) ==
    \E col_l \in {Lower(col)} :
        \A k \in 1..Len(keywords) : Contains(col_l, Lower(keywords[k]))

\* find_column_by_keywords(df, keywords, label): Ok(first matching column name),
\* or the KeyError of line 28.
find_column_by_keywords(df, keywords, label) ==
    LET hits == {i \in 1..Len(df.columns) : MatchesAll(df.columns[i], keywords)} IN
    IF hits # {}
    THEN [ok |-> TRUE,
          val |-> df.columns[CHOOSE i \in hits : \A j \in hits : i <= j],
          err |-> ""]
    ELSE [ok |-> FALSE, val |-> "", err |-> KeyErrorStr(label \o " column not found")]

----------------------------------------------------------------------------
(* Values, DataFrames and uploaded files *)

Num(n) == [t |-> "num", n |-> n, s |-> ""]
Str(s) == [t |-> "str", n |-> 0, s |-> s]
Formula(s) == [t |-> "formula", n |-> 0, s |-> s]
NaN == [t |-> "nan", n |-> 0, s |-> ""]
None == [t |-> "none", n |-> 0, s |-> ""]

NoFrame == [columns |-> <<>>, rows |-> <<>>]
NoFile == [uploaded |-> FALSE, columns |-> <<>>, rows |-> <<>>]
File(columns, rows) == [uploaded |-> TRUE, columns |-> columns, rows |-> rows]

\* pd.read_excel(path): the first sheet's header row and data rows.
read_excel(f) == [columns |-> f.columns, rows |-> f.rows]

HasColumn(df, name) == \E i \in 1..Len(df.columns) : df.columns[i] = name

ColumnPos(df, name) == CHOOSE i \in 1..Len(df.columns) : df.columns[i] = name

\* df[name] of one row.
At(df, row, name) == row[ColumnPos(df, name)]

RECURSIVE NewColumns(_, _)
\* The columns of `more` that `have` lacks, in order.
NewColumns(have, more) ==
    IF more = <<>> THEN <<>>
    ELSE IF \E i \in 1..Len(have) : have[i] = Head(more)
         THEN NewColumns(have, Tail(more))
         ELSE <<Head(more)>> \o NewColumns(have \o <<Head(more)>>, Tail(more))

\* One frame's rows laid out on the columns cols, NaN where it has no such column.
Reindex(df, cols) ==
    [r \in 1..Len(df.rows) |->
        [c \in 1..Len(cols) |->
            IF HasColumn(df, cols[c]) THEN At(df, df.rows[r], cols[c]) ELSE NaN]]

\* pd.concat([a, b], ignore_index=True): the union of the columns, a's first, and
\* every row of a followed by every row of b.
concat(a, b) ==
    LET cols == a.columns \o NewColumns(a.columns, b.columns) IN
    [columns |-> cols, rows |-> Reindex(a, cols) \o Reindex(b, cols)]

\* Lines 77-83: df_sales.
MergeSales(sd, sr) ==
    concat(normalize_columns(read_excel(sd)), normalize_columns(read_excel(sr)))

\* df[mask]: the rows whose positions are in mask, in order.
FilterRows(df, mask) ==
    LET Nth(k) == CHOOSE i \in mask : Cardinality({j \in mask : j <= i}) = k
    IN  [df EXCEPT !.rows = [k \in 1..Cardinality(mask) |-> df.rows[Nth(k)]]]

\* Series.astype(str) of one value (an integer-valued column prints without ".0").
AsStr(v) == IF v.t = "num" THEN ToString(v.n) ELSE IF v.t = "str" THEN v.s ELSE "nan"

\* Line 91.
gst_accounts == <<"Central GST Payable", "Integrated GST Payable", "State GST Payable">>

IsGstAccount(v) == v.t = "str" /\ \E i \in 1..Len(gst_accounts) : gst_accounts[i] = v.s

\* Line 92: df_gst.
GstRows(df_gl, gl_text) ==
    FilterRows(df_gl, {r \in 1..Len(df_gl.rows) :
                          IsGstAccount(At(df_gl, df_gl.rows[r], gl_text))})

\* Line 93: df_rev.
RevenueRows(df_gl, gl_acct) ==
    FilterRows(df_gl, {r \in 1..Len(df_gl.rows) :
                          StartsWith(AsStr(At(df_gl, df_gl.rows[r], gl_acct)), "3")})

\* a - b on numeric cells; NaN when either is missing.
Minus(a, b) == IF a.t = "num" /\ b.t = "num" THEN Num(a.n - b.n) ELSE NaN

\* Lines 100-101: df_tb_gst with its added column "Difference as per TB".
TbGstRows(df_tb, tb_text, debit, credit) ==
    LET kept == FilterRows(df_tb, {r \in 1..Len(df_tb.rows) :
                                      IsGstAccount(At(df_tb, df_tb.rows[r], tb_text))})
    IN  [columns |-> kept.columns \o <<"Difference as per TB">>,
         rows |-> [r \in 1..Len(kept.rows) |->
                     kept.rows[r] \o
                     <<Minus(At(df_tb, kept.rows[r], credit), At(df_tb, kept.rows[r], debit))>>]]

RECURSIVE SumRows(_, _, _, _, _)
\* The sum of the numeric cells of column col over those of the first n rows of
\* df whose key column holds cat (sum() skips NaN).
SumRows(df, key, col, cat, n) ==
    IF n = 0 THEN 0
    ELSE LET row == df.rows[n]
             v == At(df, row, col)
         IN  (IF At(df, row, key) = Str(cat) /\ v.t = "num" THEN v.n ELSE 0)
             + SumRows(df, key, col, cat, n - 1)

\* groupby(key)[col].sum() for the key cat.
GroupSum(df, key, col, cat) == SumRows(df, key, col, cat, Len(df.rows))

\* The keys of groupby(key): the categories present, sorted (gst_accounts is in
\* sorted order already, and the frames grouped hold no other key).
GroupKeys(df, key) ==
    LET Present(cat) == \E r \in 1..Len(df.rows) : At(df, df.rows[r], key) = Str(cat)
    IN  SelectSeq(gst_accounts, Present)

\* how="left" of line 109: the rows of the merge come from the left keys.
MergeKeys(left, right) == left

\* Lines 103-110: summary_df.
Summarize(df_gst, gl_text, val_col, df_tb_gst, tb_text) ==
    LET glKeys == GroupKeys(df_gst, gl_text)
        tbKeys == GroupKeys(df_tb_gst, tb_text)
        keys == MergeKeys(glKeys, tbKeys)
        Has(ks, cat) == \E i \in 1..Len(ks) : ks[i] = cat
    IN  [columns |-> <<"GST Type", "GST Payable as per GL", "Difference as per TB">>,
         rows |-> [i \in 1..Len(keys) |->
            <<Str(keys[i]),
              IF Has(glKeys, keys[i])
              THEN Num(GroupSum(df_gst, gl_text, val_col, keys[i])) ELSE Num(0),
              IF Has(tbKeys, keys[i])
              THEN Num(GroupSum(df_tb_gst, tb_text, "Difference as per TB", keys[i]))
              ELSE Num(0)>>]]

----------------------------------------------------------------------------
(* Worksheets (openpyxl): a title, the cell matrix (row 1 is the header) and the  *)
(* pivot tables attached to the sheet.                                            *)

NoSheet == [title |-> "", cells |-> <<>>, pivots |-> <<>>]

\* DataFrame.to_excel(writer, title, index=False) read back by load_workbook: the
\* header row, then the rows; a NaN is not written and reads back as None.
to_excel(df, title) ==
    [title |-> title,
     cells |-> <<[c \in 1..Len(df.columns) |-> Str(df.columns[c])]>> \o
               [r \in 1..Len(df.rows) |->
                   [c \in 1..Len(df.columns) |->
                       IF df.rows[r][c].t = "nan" THEN None ELSE df.rows[r][c]]],
     pivots |-> <<>>]

max_row(ws) == Len(ws.cells)
max_column(ws) == Len(ws.cells[1])

\* Cell.column_letter: 1 -> "A", 26 -> "Z", 27 -> "AA".
column_letter(col) ==
    IF col <= 26 THEN CharAt(UpperLetters, col)
    ELSE CharAt(UpperLetters, (col - 1) \div 26) \o CharAt(UpperLetters, ((col - 1) % 26) + 1)

RECURSIVE column_index(_)
\* The column a letter code names.
column_index(letters) ==
    IF Len(letters) = 0 THEN 0
    ELSE column_index(SubSeq(letters, 1, Len(letters) - 1)) * 26
         + LetterIndex(CharAt(letters, Len(letters)))

IsDigits(s) == Len(s) > 0 /\ \A i \in 1..Len(s) : DigitIndex(CharAt(s, i)) > 0

RECURSIVE ParseNat(_)
\* The number a string of digits denotes.
ParseNat(s) ==
    IF Len(s) = 0 THEN 0
    ELSE ParseNat(SubSeq(s, 1, Len(s) - 1)) * 10 + (DigitIndex(CharAt(s, Len(s))) - 1)

\* How many letters a cell reference such as "AB12" starts with.
LettersLen(ref) ==
    CHOOSE k \in 0..Len(ref) :
        /\ \A i \in 1..k : LetterIndex(CharAt(ref, i)) > 0
        /\ k < Len(ref) => LetterIndex(CharAt(ref, k + 1)) = 0

\* ws[ref].value, ref a coordinate such as f"{letter}{r}".
CellValue(ws, ref) ==
    LET k == LettersLen(ref) IN
    ws.cells[ParseNat(SubSeq(ref, k + 1, Len(ref)))][column_index(SubSeq(ref, 1, k))]

\* get_column_letter_by_header(ws, header_name), lines 31-35.
get_column_letter_by_header(ws, header_name) ==
    LET hits == {c \in 1..max_column(ws) : ws.cells[1][c] = Str(header_name)} IN
    IF hits # {}
    THEN [ok |-> TRUE,
          val |-> column_letter(CHOOSE c \in hits : \A d \in hits : c <= d),
          err |-> ""]
    ELSE [ok |-> FALSE, val |-> "",
          err |-> "\"Column '" \o header_name \o "' not found in " \o ws.title \o "\""]

\* ws with column col written: ws.cell(1, col, header) and ws.cell(r, col, val[r])
\* for every data row r; a cell of the column left unwritten is None.
WithColumn(ws, col, header, val) ==
    [ws EXCEPT !.cells =
        [r \in 1..max_row(ws) |->
            [c \in 1..(IF col > max_column(ws) THEN col ELSE max_column(ws)) |->
                IF c = col THEN (IF r = 1 THEN Str(header) ELSE val[r])
                ELSE IF c <= max_column(ws) THEN ws.cells[r][c] ELSE None]]]

\* Line 129.
amt_cols == <<"Taxable value", "IGST Amt", "CGST Amt", "SGST/UTGST Amt">>

\* Line 135: isinstance(value, (int, float)).
IsNumber(v) == v.t = "num"

\* The test of line 133 dropped: every row that has a document type.
IsAnyDocument(ws, doc_type, r) == CellValue(ws, doc_type \o ToString(r)) # None

\* Line 133: the rows the pass negates.
IsCreditNote(ws, doc_type, r) == CellValue(ws, doc_type \o ToString(r)) = Str("C")

\* Lines 132-136: the loop, given the letters of Document Type and the amount columns.
NegateCreditNotes(ws, doc_type, amt_letters) ==
    [ws EXCEPT !.cells =
        [r \in 1..max_row(ws) |->
            [c \in 1..max_column(ws) |->
                IF /\ r >= 2
                   /\ IsCreditNote(ws, doc_type, r)
                   /\ \E i \in 1..Len(amt_letters) : amt_letters[i] = column_letter(c)
                   /\ IsNumber(ws.cells[r][c])
                THEN Num(ws.cells[r][c].n * (-1))
                ELSE ws.cells[r][c]]]]

\* The first header of names that ws lacks, "" when it has them all.
FirstMissing(ws, names) ==
    LET bad == {i \in 1..Len(names) : ~get_column_letter_by_header(ws, names[i]).ok} IN
    IF bad = {} THEN "" ELSE names[CHOOSE i \in bad : \A j \in bad : i <= j]

\* Lines 127-136, CREDIT NOTE NEGATIVES.
SignPass(ws) ==
    LET doc_type == get_column_letter_by_header(ws, "Document Type")
        missing == FirstMissing(ws, amt_cols)
    IN  IF ~doc_type.ok THEN [ok |-> FALSE, val |-> ws, err |-> doc_type.err]
        ELSE IF missing # ""
        THEN [ok |-> FALSE, val |-> ws, err |-> get_column_letter_by_header(ws, missing).err]
        ELSE [ok |-> TRUE,
              val |-> NegateCreditNotes(ws, doc_type.val,
                        [i \in 1..Len(amt_cols) |->
                            get_column_letter_by_header(ws, amt_cols[i]).val]),
              err |-> ""]

\* float(value or 0) of line 147, for an empty cell, a number, or a string that is
\* either all digits or not a number at all.
TaxRate(v) ==
    IF v.t = "none" THEN [ok |-> TRUE, val |-> 0, err |-> ""]
    ELSE IF v.t = "num" THEN [ok |-> TRUE, val |-> v.n, err |-> ""]
    ELSE IF v.s = "" THEN [ok |-> TRUE, val |-> 0, err |-> ""]
    ELSE IF IsDigits(v.s) THEN [ok |-> TRUE, val |-> ParseNat(v.s), err |-> ""]
    ELSE [ok |-> FALSE, val |-> 0,
          err |-> "could not convert string to float: '" \o v.s \o "'"]

\* The zero-rate test moved before the SEZ tests.
SalesSummaryExemptFirst(it, dt, tr) ==
    IF tr = 0 THEN "Exempt supply"
    ELSE IF it = Str("SEWOP") THEN "SEZWOP"
    ELSE IF it = Str("SEWP") THEN "SEWP"
    ELSE IF it = Str("B2B") /\ dt = Str("C") THEN "B2B Credit Notes"
    ELSE IF it = Str("B2B") THEN "B2B Supplies"
    ELSE IF it = Str("B2CS") THEN "B2C Supplies"
    ELSE ""

\* Lines 148-154: the label of a row with Invoice type it, Document Type dt, rate tr.
SalesSummary(it, dt, tr) ==
    IF it = Str("SEWOP") THEN "SEZWOP"
    ELSE IF it = Str("SEWP") THEN "SEWP"
    ELSE IF it \notin {Str("SEWOP"), Str("SEWP")} /\ tr = 0 THEN "Exempt supply"
    ELSE IF it = Str("B2B") /\ dt = Str("C") /\ tr # 0 THEN "B2B Credit Notes"
    ELSE IF it = Str("B2B") /\ dt # Str("C") /\ tr # 0 THEN "B2B Supplies"
    ELSE IF it = Str("B2CS") /\ tr # 0 THEN "B2C Supplies"
    ELSE ""

\* Lines 138-155, SALES SUMMARY COLUMN.  A row whose tax rate does not convert
\* raises, and the rows after it stay unlabelled.
LabelPass(ws) ==
    LET inv == get_column_letter_by_header(ws, "Invoice type")
        tax == get_column_letter_by_header(ws, "Tax rate")
        doc_type == get_column_letter_by_header(ws, "Document Type")
        ss_col_idx == max_column(ws) + 1
        Rate(r) == TaxRate(CellValue(ws, tax.val \o ToString(r)))
        bad == {r \in 2..max_row(ws) : ~Rate(r).ok}
        stop == IF bad = {} THEN max_row(ws) + 1 ELSE CHOOSE r \in bad : \A q \in bad : r <= q
        label == [r \in 2..max_row(ws) |->
            IF r >= stop THEN None
            ELSE Str(SalesSummary(CellValue(ws, inv.val \o ToString(r)),
                                  CellValue(ws, doc_type.val \o ToString(r)),
                                  Rate(r).val))]
    IN  IF ~inv.ok THEN [ok |-> FALSE, val |-> ws, err |-> inv.err]
        ELSE IF ~tax.ok THEN [ok |-> FALSE, val |-> ws, err |-> tax.err]
        ELSE [ok |-> bad = {},
              val |-> WithColumn(ws, ss_col_idx, "Sales summary", label),
              err |-> IF bad = {} THEN "" ELSE Rate(stop).err]

\* Lines 167-168: the two lookup formulas of row r.
RevenueLookup(gf8, r, rev_doc_col) ==
    "=IFERROR(VLOOKUP(" \o gf8 \o ToString(r) \o ",Revenue!" \o rev_doc_col \o ":"
    \o rev_doc_col \o ",1,FALSE),\"Not Found\")"

GstLookup(gf8, r, gst_doc_col) ==
    "=IFERROR(VLOOKUP(" \o gf8 \o ToString(r) \o ",'GST payable'!" \o gst_doc_col \o ":"
    \o gst_doc_col \o ",1,FALSE),\"Not Found\")"

\* Lines 157-168, VLOOKUPS & CROSS LOOKUPS.
LookupPass(ws, ws_rev, ws_gst) ==
    LET gf8 == get_column_letter_by_header(ws, "Generic Field 8")
        rev_doc_col == get_column_letter_by_header(ws_rev, "Document Number")
        gst_doc_col == get_column_letter_by_header(ws_gst, "Document Number")
        sr_last == max_column(ws)
        rev == [r \in 2..max_row(ws) |-> Formula(RevenueLookup(gf8.val, r, rev_doc_col.val))]
        gst == [r \in 2..max_row(ws) |-> Formula(GstLookup(gf8.val, r, gst_doc_col.val))]
    IN  IF ~gf8.ok THEN [ok |-> FALSE, val |-> ws, err |-> gf8.err]
        ELSE IF ~rev_doc_col.ok THEN [ok |-> FALSE, val |-> ws, err |-> rev_doc_col.err]
        ELSE IF ~gst_doc_col.ok THEN [ok |-> FALSE, val |-> ws, err |-> gst_doc_col.err]
        ELSE [ok |-> TRUE,
              val |-> WithColumn(WithColumn(ws, sr_last + 1, "Revenue VLOOKUP", rev),
                                 sr_last + 2, "GST Payable VLOOKUP", gst),
              err |-> ""]

\* list.index(name) over the header row (0-based), or the ValueError it raises.
HeaderIndex(ws, name) ==
    LET hits == {c \in 1..max_column(ws) : ws.cells[1][c] = Str(name)} IN
    IF hits # {}
    THEN [ok |-> TRUE, val |-> (CHOOSE c \in hits : \A d \in hits : c <= d) - 1, err |-> ""]
    ELSE [ok |-> FALSE, val |-> 0, err |-> "'" \o name \o "' is not in list"]

\* What the pivot names can do.  Lines 6-7 import PivotTable and PivotCache from
\* openpyxl and line 210 reads pandas.api.types.DataField; released versions of the
\* two libraries define none of them, so the model keeps every outcome:
\*   "no_import"  lines 6-7 raise ImportError and every script run ends there,
\*   "raises"     the imports resolve and line 210 raises AttributeError,
\*   "works"      every name resolves and the pivot table is built.
ApiOutcomes == {"no_import", "raises", "works"}

ImportErrorText == "cannot import name 'PivotTable' from 'openpyxl.pivot.table'"
AttributeErrorText == "module 'pandas.api.types' has no attribute 'DataField'"

\* Lines 170-213, PIVOT TABLE: the new sheet with its pivot table.
PivotPass(ws, api) ==
    LET idx_gstin == HeaderIndex(ws, "GSTIN of Taxpayer")
        idx_summary == HeaderIndex(ws, "Sales summary")
        Data(name) == [fld |-> HeaderIndex(ws, name).val,
                       name |-> "Sum of " \o name, subtotal |-> "sum"]
    IN  IF ~idx_gstin.ok THEN [ok |-> FALSE, val |-> NoSheet, err |-> idx_gstin.err]
        ELSE IF api # "works" THEN [ok |-> FALSE, val |-> NoSheet, err |-> AttributeErrorText]
        ELSE [ok |-> TRUE,
              val |-> [title |-> "Sales summary",
                       cells |-> <<>>,
                       pivots |-> <<[name |-> "SalesSummaryPivot",
                                     anchor |-> "A3",
                                     max_col |-> max_column(ws),
                                     max_row |-> max_row(ws),
                                     pageFields |-> <<idx_gstin.val>>,
                                     rowFields |-> <<idx_summary.val>>,
                                     dataFields |-> [i \in 1..Len(amt_cols) |-> Data(amt_cols[i])]]>>],
              err |-> ""]

\* Line 218: the formula written in column D of row r.
NetDifferenceFormula(r) == "=B" \o ToString(r) \o "+C" \o ToString(r)

\* Lines 215-219: the "Net Difference" column of the GST Summary sheet.
FinalizeSum(ws_sum) ==
    WithColumn(ws_sum, 4, "Net Difference",
               [r \in 2..max_row(ws_sum) |-> Formula(NetDifferenceFormula(r))])

\* What a spreadsheet program shows for a cell: a formula "=<ref>+<ref>" or
\* "=<ref>-<ref>" over numeric cells is evaluated, any other cell shows its value.
Shown(ws, v) ==
    IF v.t # "formula" THEN v
    ELSE LET ops == {i \in 2..Len(v.s) : CharAt(v.s, i) \in {"+", "-"}}
             i == CHOOSE j \in ops : \A k \in ops : j <= k
             a == CellValue(ws, SubSeq(v.s, 2, i - 1))
             b == CellValue(ws, SubSeq(v.s, i + 1, Len(v.s)))
         IN  IF ops = {} THEN v
             ELSE IF CharAt(v.s, i) = "+" THEN Num(a.n + b.n) ELSE Num(a.n - b.n)

----------------------------------------------------------------------------
(* The Process Files handler, lines 54-231 *)

\* The handler's variables before it assigns any.  step is where the run stands:
\* "idle" (no run), "running", the step that ended it, or "done" (line 228 reached);
\* shown is what the run displayed with st.error or st.success.
NoRun ==
    [step |-> "idle", shown |-> "",
     df_sales |-> NoFrame, df_gl |-> NoFrame, df_gst |-> NoFrame, df_rev |-> NoFrame,
     df_tb |-> NoFrame, df_tb_gst |-> NoFrame, summary_df |-> NoFrame,
     gl_text |-> "", gl_acct |-> "", val_col |-> "", doc_col |-> "",
     tb_text |-> "", debit |-> "", credit |-> "",
     ws_sales |-> NoSheet, ws_rev |-> NoSheet, ws_gst |-> NoSheet, ws_sum |-> NoSheet,
     ws_pivot |-> NoSheet, outputs |-> {}]

MandatoryText == "All inputs are mandatory"
SuccessText == "Processing completed successfully"

\* Line 231: st.error(f"Error: {str(e)}").
ErrorText(e) == "Error: " \o e

\* The run x ended in step, showing text.
Ended(x, step, text) == [x EXCEPT !.step = step, !.shown = text]

\* The error text of the first result that raised.
FirstError(results) ==
    LET bad == {i \in 1..Len(results) : ~results[i].ok} IN
    results[CHOOSE i \in bad : \A j \in bad : i <= j].err

\* Line 56: all([company_code, sd_file, sr_file, tb_file, gl_file]).
AllInputs(code, sd, sr, tb, gl) ==
    code # "" /\ sd.uploaded /\ sr.uploaded /\ tb.uploaded /\ gl.uploaded

\* Lines 5-7 and 54-61: the imports, the button, the check of the inputs.
Begin(api, code, sd, sr, tb, gl) ==
    IF api = "no_import" THEN Ended(NoRun, "import", ImportErrorText)
    ELSE IF ~AllInputs(code, sd, sr, tb, gl) THEN Ended(NoRun, "inputs", MandatoryText)
    ELSE [NoRun EXCEPT !.step = "running"]

\* Lines 77-83.
LoadSales(x, sd, sr) == [x EXCEPT !.df_sales = MergeSales(sd, sr)]

\* Lines 85-93.
LoadGL(x, gl) ==
    LET df_gl == normalize_columns(read_excel(gl))
        gl_text == find_column_by_keywords(df_gl, <<"g/l", "long", "text">>, "GL Text")
        gl_acct == find_column_by_keywords(df_gl, <<"g/l", "account">>, "GL Account")
        val_col == find_column_by_keywords(df_gl, <<"value">>, "Amount")
        doc_col == find_column_by_keywords(df_gl, <<"document">>, "Document")
    IN  IF ~(gl_text.ok /\ gl_acct.ok /\ val_col.ok /\ doc_col.ok)
        THEN Ended([x EXCEPT !.df_gl = df_gl], "gl columns",
                   ErrorText(FirstError(<<gl_text, gl_acct, val_col, doc_col>>)))
        ELSE [x EXCEPT !.df_gl = df_gl,
                       !.gl_text = gl_text.val, !.gl_acct = gl_acct.val,
                       !.val_col = val_col.val, !.doc_col = doc_col.val,
                       !.df_gst = GstRows(df_gl, gl_text.val),
                       !.df_rev = RevenueRows(df_gl, gl_acct.val)]

\* Lines 95-101.
LoadTB(x, tb) ==
    LET df_tb == normalize_columns(read_excel(tb))
        tb_text == find_column_by_keywords(df_tb, <<"g/l", "acct", "long">>, "TB Text")
        debit == find_column_by_keywords(df_tb, <<"period", "d">>, "Debit")
        credit == find_column_by_keywords(df_tb, <<"period", "c">>, "Credit")
    IN  IF ~(tb_text.ok /\ debit.ok /\ credit.ok)
        THEN Ended([x EXCEPT !.df_tb = df_tb], "tb columns",
                   ErrorText(FirstError(<<tb_text, debit, credit>>)))
        ELSE [x EXCEPT !.df_tb = df_tb,
                       !.tb_text = tb_text.val, !.debit = debit.val, !.credit = credit.val,
                       !.df_tb_gst = TbGstRows(df_tb, tb_text.val, debit.val, credit.val)]

\* Lines 103-110.
BuildSummary(x) ==
    [x EXCEPT !.summary_df =
        Summarize(x.df_gst, x.gl_text, x.val_col, x.df_tb_gst, x.tb_text)]

\* Lines 112-125: the workbook written by pandas and loaded by openpyxl.
WriteWorkbook(x) ==
    [x EXCEPT !.ws_sales = to_excel(x.df_sales, "Sales register"),
              !.ws_rev = to_excel(x.df_rev, "Revenue"),
              !.ws_gst = to_excel(x.df_gst, "GST payable"),
              !.ws_sum = to_excel(x.summary_df, "GST Summary")]

\* A pass over the Sales register: its sheet is kept as the pass left it, and a
\* pass that raised ends the run in step.
AfterPass(x, step, pass) ==
    IF pass.ok THEN [x EXCEPT !.ws_sales = pass.val]
    ELSE Ended([x EXCEPT !.ws_sales = pass.val], step, ErrorText(pass.err))

CreditNotes(x) == AfterPass(x, "credit notes", SignPass(x.ws_sales))

SalesSummaryColumn(x) == AfterPass(x, "sales summary", LabelPass(x.ws_sales))

Lookups(x) == AfterPass(x, "lookups", LookupPass(x.ws_sales, x.ws_rev, x.ws_gst))

\* The pivot block with its exception swallowed: the run goes on without the table.
PivotSkipped(x, api) ==
    LET pass == PivotPass(x.ws_sales, api) IN
    IF pass.ok THEN [x EXCEPT !.ws_pivot = pass.val] ELSE x

\* Lines 170-213.
Pivot(x, api) ==
    LET pass == PivotPass(x.ws_sales, api) IN
    IF pass.ok THEN [x EXCEPT !.ws_pivot = pass.val]
    ELSE Ended(x, "pivot", ErrorText(pass.err))

\* Lines 221-224: the entries the handler puts in its local outputs.
SavedOutputs(code, wb) == {[name |-> "GSTR-1 Workbook.xlsx", wb |-> wb]}

\* Lines 215-228: the summary formula, the save, the outputs, st.success.
Finish(x, code) ==
    LET ws_sum == FinalizeSum(x.ws_sum)
        wb == [sheets |-> <<x.ws_sales, x.ws_rev, x.ws_gst, ws_sum, x.ws_pivot>>]
    IN  Ended([x EXCEPT !.ws_sum = ws_sum, !.outputs = SavedOutputs(code, wb)],
              "done", SuccessText)

\* The handler's statement blocks, in the order of the source, applied to the
\* variables x with the inputs in.
Blocks == <<"load sales", "load gl", "load tb", "summary", "workbook", "credit notes",
            "sales summary", "lookups", "pivot", "finish">>

Block(name, x, in) ==
    CASE name = "load sales" -> LoadSales(x, in.sd, in.sr)
      [] name = "load gl" -> LoadGL(x, in.gl)
      [] name = "load tb" -> LoadTB(x, in.tb)
      [] name = "summary" -> BuildSummary(x)
      [] name = "workbook" -> WriteWorkbook(x)
      [] name = "credit notes" -> CreditNotes(x)
      [] name = "sales summary" -> SalesSummaryColumn(x)
      [] name = "lookups" -> Lookups(x)
      [] name = "pivot" -> Pivot(x, in.api)
      [] name = "finish" -> Finish(x, in.code)

RECURSIVE Through(_, _, _)
\* The run x after the blocks from the k-th on: a run that has ended (an exception,
\* st.stop()) skips them.  Each block's result is computed once, to a value.
Through(x, k, in) ==
    IF k > Len(Blocks) \/ x.step # "running" THEN x
    ELSE Through(CHOOSE y \in {Block(Blocks[k], v, in) : v \in {x}} : y = y, k + 1, in)

\* One run of the handler: its variables when it ended.
ProcessRun(api, code, sd, sr, tb, gl) ==
    CHOOSE y \in {Through(v, 1, [api |-> api, code |-> code, sd |-> sd, sr |-> sr,
                                tb |-> tb, gl |-> gl]) :
                    v \in {Begin(api, code, sd, sr, tb, gl)}} : y = y

----------------------------------------------------------------------------
(* Script runs *)

\* Line 227: st.session_state.processed after a run that ended in step.
CommitProcessed(step, old) == IF step = "done" THEN TRUE ELSE old

\* Line 226 moved to a finally clause: the local outputs are stored however the run
\* ended.
CommitOutputsAlways(step, made, old) == made

\* Line 226: st.session_state.outputs after a run that ended in step with the
\* local outputs made.
CommitOutputs(step, made, old) == IF step = "done" THEN made ELSE old

\* Lines 235-237: the download buttons a run renders.  A run that ended at the
\* import error or at st.stop() (line 58) never reaches them.
Rendered(step, proc, outs) ==
    IF step \in {"import", "inputs"} THEN {}
    ELSE IF proc THEN {o.name : o \in outs} ELSE {}

\* Downloads are on offer: the condition of line 235 over a non-empty dictionary.
DownloadsOffered == processed /\ outputs # {}

\* The button "Process Files" is pressed: one run of the script with the button true.
ProcessFiles ==
    \E res \in {ProcessRun(pivot_api, company_code, sd_file, sr_file, tb_file, gl_file)} :
        /\ processed' = CommitProcessed(res.step, processed)
        /\ outputs' = CommitOutputs(res.step, res.outputs, outputs)
        /\ message' = res.shown
        /\ downloads' = Rendered(res.step, processed', outputs')
        /\ run' = res
        /\ completed' = (completed \/ res.step = "done")
        /\ UNCHANGED <<pivot_api, company_code, sd_file, sr_file, tb_file, gl_file>>

\* A run of the script with the button false, after a widget changed: the handler
\* is skipped and the Download section renders from the session state.
Rerun ==
    /\ message' = IF pivot_api = "no_import" THEN ImportErrorText ELSE ""
    /\ downloads' = Rendered(IF pivot_api = "no_import" THEN "import" ELSE "idle",
                             processed, outputs)
    /\ run' = NoRun
    /\ UNCHANGED <<pivot_api, processed, outputs, completed>>

----------------------------------------------------------------------------
(* The files and codes the model draws its inputs from *)

MaxSDRows == 1
MaxSRRows == 2
MaxGLRows == 2
MaxTBRows == 2
MaxTBCols == 3

BoundedSeqs(S, n) == UNION {[1..k -> S] : k \in 0..n}

\* The sequences of at most n rows whose first row is of first and later rows of rest.
RowSeqs(first, rest, n) ==
    {<<>>} \cup
    (IF n = 0 THEN {} ELSE {<<p>> \o s : p \in first, s \in BoundedSeqs(rest, n - 1)})

\* The injective sequences over S of length n.
Arrangements(S, n) == {s \in [1..n -> S] : \A i, j \in 1..n : s[i] = s[j] => i = j}

\* The register headers as the SD export writes them (stray blanks included) and
\* as normalize_columns leaves them.
RawSalesColumns ==
    <<" Document  Type", "Invoice type ", "Tax rate", "Taxable   value", "IGST Amt",
      "CGST Amt", "SGST/UTGST Amt", "GSTIN of Taxpayer", "Generic Field 8">>
SalesColumns ==
    <<"Document Type", "Invoice type", "Tax rate", "Taxable value", "IGST Amt",
      "CGST Amt", "SGST/UTGST Amt", "GSTIN of Taxpayer", "Generic Field 8">>

SalesRow(dt, it, tr, amounts) ==
    <<Str(dt), Str(it), tr, amounts[1], amounts[2], amounts[3], amounts[4],
      Str("29AAA"), Str("D1")>>

\* The SR export's first row when it repeats the header.
HeaderRow == [c \in 1..Len(SalesColumns) |-> Str(SalesColumns[c])]

PlainAmounts == <<Num(100), Num(9), Num(9), NaN>>
MixedAmounts == <<Num(0), Str("NA"), NaN, Num(-7)>>

DocTypes == {"C", "R"}
InvoiceTypes == {"SEWOP", "SEWP", "B2B", "B2CS", "EXPWP"}
TaxRates == {NaN, Num(0), Num(18), Str("0"), Str("18%")}

RowPool ==
    {SalesRow(dt, it, tr, PlainAmounts) : dt \in DocTypes, it \in InvoiceTypes, tr \in TaxRates}
    \cup {SalesRow(dt, "B2B", Num(18), MixedAmounts) : dt \in DocTypes}

MoreRows == {SalesRow("C", "B2CS", Num(5), MixedAmounts),
             SalesRow("R", "SEWP", Num(0), PlainAmounts)}

ReturnRows == {HeaderRow, SalesRow("C", "B2B", Num(18), MixedAmounts)}

GLColumns == <<"G/L Account", "G/L Account: Long Text", "Document Number", "Value">>
TBColumns == <<"G/L Acct Long Text", "Period D", "Period C">>

GLPool ==
    {<<Num(20001), Str("Central GST Payable"), Str("D1"), Num(100)>>,
     <<Num(20003), Str("State GST Payable"), Str("D4"), Num(-25)>>,
     <<Num(20003), Str("state gst payable"), Str("D5"), Num(11)>>,
     <<Num(30001), Str("Sales Revenue"), Str("D1"), Num(500)>>}

TBPool ==
    {<<Str("Central GST Payable"), Num(30), Num(50)>>,
     <<Str("Integrated GST Payable"), Num(10), Num(25)>>,
     <<Str("State GST Payable"), Num(5), Num(8)>>,
     <<Str("Bank"), Num(7), Num(1)>>}

sdOne == File(RawSalesColumns, <<SalesRow("R", "B2B", Num(18), PlainAmounts)>>)
sdTwo == File(RawSalesColumns, <<SalesRow("C", "B2B", Num(18), PlainAmounts),
                                 SalesRow("R", "B2CS", Num(0), MixedAmounts)>>)
sdNoDocType == File(Tail(SalesColumns), <<Tail(SalesRow("R", "B2B", Num(18), PlainAmounts))>>)
srOne == File(SalesColumns, <<SalesRow("C", "B2B", Num(18), PlainAmounts)>>)
srHeader == File(SalesColumns, <<HeaderRow, SalesRow("C", "B2B", Num(18), PlainAmounts)>>)
glOne == File(GLColumns, <<<<Num(20001), Str("Central GST Payable"), Str("D1"), Num(100)>>,
                           <<Num(30001), Str("Sales Revenue"), Str("D1"), Num(500)>>>>)
glNoValue == File(<<"G/L Account", "G/L Account: Long Text", "Document Number", "Amount">>,
                  glOne.rows)
tbOne == File(TBColumns, <<<<Str("Central GST Payable"), Num(0), Num(50)>>>>)
tbNoPeriod == File(<<"G/L Acct Long Text", "Debit", "Credit">>, tbOne.rows)

Codes == {"", "ACME"}
SDFiles == {NoFile, sdOne, sdTwo, sdNoDocType}
SRFiles == {NoFile, srOne, srHeader}
TBFiles == {NoFile, tbOne, tbNoPeriod}
GLFiles == {NoFile, glOne, glNoValue}

----------------------------------------------------------------------------
(* The session: the widgets change and the button is pressed, in any order *)

SetCompanyCode ==
    /\ \E c \in Codes : company_code' = c
    /\ UNCHANGED <<sd_file, sr_file, tb_file, gl_file>>
    /\ Rerun

UploadSD ==
    /\ \E f \in SDFiles : sd_file' = f
    /\ UNCHANGED <<company_code, sr_file, tb_file, gl_file>>
    /\ Rerun

UploadSR ==
    /\ \E f \in SRFiles : sr_file' = f
    /\ UNCHANGED <<company_code, sd_file, tb_file, gl_file>>
    /\ Rerun

UploadTB ==
    /\ \E f \in TBFiles : tb_file' = f
    /\ UNCHANGED <<company_code, sd_file, sr_file, gl_file>>
    /\ Rerun

UploadGL ==
    /\ \E f \in GLFiles : gl_file' = f
    /\ UNCHANGED <<company_code, sd_file, sr_file, tb_file>>
    /\ Rerun

\* Lines 39-41, before any run of the handler.
FreshSession ==
    /\ processed = FALSE
    /\ outputs = {}
    /\ message = ""
    /\ downloads = {}
    /\ run = NoRun
    /\ completed = FALSE

Init ==
    /\ pivot_api \in ApiOutcomes
    /\ company_code = ""
    /\ sd_file = NoFile
    /\ sr_file = NoFile
    /\ tb_file = NoFile
    /\ gl_file = NoFile
    /\ FreshSession

Next == SetCompanyCode \/ UploadSD \/ UploadSR \/ UploadTB \/ UploadGL \/ ProcessFiles

Spec == Init /\ [][Next]_vars

----------------------------------------------------------------------------
(* The handler over families of uploads: the widgets hold one upload of the    *)
(* family and the button is pressed.                                           *)

\* The outcomes in which the handler runs at all.
HandlerApis == ApiOutcomes \ {"no_import"}

\* The SR export in the register's layout, and with a column of its own.
ReturnFiles ==
    {File(SalesColumns, rows) : rows \in BoundedSeqs(ReturnRows, MaxSRRows)}
    \cup {File(SalesColumns \o <<"Return reason">>,
               [i \in 1..Len(rows) |-> rows[i] \o <<Str("damaged")>>]) :
            rows \in BoundedSeqs(ReturnRows, MaxSRRows)}

InitSales ==
    /\ pivot_api \in HandlerApis
    /\ company_code = "ACME"
    /\ sd_file \in {File(RawSalesColumns, rows) : rows \in RowSeqs(RowPool, MoreRows, MaxSDRows)}
    /\ sr_file \in ReturnFiles
    /\ tb_file = tbOne
    /\ gl_file = glOne
    /\ FreshSession

SpecSales == InitSales /\ [][ProcessFiles]_vars

\* The trial balance exported with the debit column first, or the credit column.
TBLayouts == {TBColumns, <<TBColumns[1], TBColumns[3], TBColumns[2]>>}

\* The rows of TBPool (in the order of TBColumns) laid out under cols.
TBFile(cols, rows) ==
    LET Pos(name) == CHOOSE c \in 1..Len(TBColumns) : TBColumns[c] = name
    IN  File(cols, [i \in 1..Len(rows) |-> [c \in 1..Len(cols) |-> rows[i][Pos(cols[c])]]])

InitRecon ==
    /\ pivot_api \in HandlerApis
    /\ company_code = "ACME"
    /\ sd_file = sdOne
    /\ sr_file = srOne
    /\ tb_file \in {TBFile(cols, rows) : cols \in TBLayouts,
                                            rows \in BoundedSeqs(TBPool, MaxTBRows)}
    /\ gl_file \in {File(GLColumns, rows) : rows \in BoundedSeqs(GLPool, MaxGLRows)}
    /\ FreshSession

SpecRecon == InitRecon /\ [][ProcessFiles]_vars

TBHeaderPool == {"G/L Acct Long Text", "Period D", "Period C", "Period Debit", "Period Credit"}
GLHeaderPool == {"G/L Account", "G/L Account: Long Text", "Document Number", "Value", "Amount"}

\* One row under the headers columns.
SampleRow(columns) ==
    [c \in 1..Len(columns) |->
        IF Contains(Lower(columns[c]), "long") THEN Str("Central GST Payable")
        ELSE IF columns[c] = "Document Number" THEN Str("D1")
        ELSE Num(Len(columns[c]))]

InitColumns ==
    /\ pivot_api \in HandlerApis
    /\ company_code = "ACME"
    /\ sd_file = sdOne
    /\ sr_file = srOne
    /\ \/ /\ tb_file \in {File(cols, <<SampleRow(cols)>>) :
                            cols \in Arrangements(TBHeaderPool, MaxTBCols)}
          /\ gl_file = glOne
       \/ /\ tb_file = tbOne
          /\ gl_file \in {File(cols, <<SampleRow(cols)>>) :
                            cols \in Arrangements(GLHeaderPool, Len(GLColumns))}
    /\ FreshSession

SpecColumns == InitColumns /\ [][ProcessFiles]_vars

----------------------------------------------------------------------------
(* Properties *)

\* The steps a run can end in once df_sales is read, once the summary is built,
\* once the credit-note pass is over, once the Sales summary column is written.
AfterRead == {"gl columns", "tb columns", "credit notes", "sales summary", "lookups", "pivot", "done"}
AfterSummary == {"credit notes", "sales summary", "lookups", "pivot", "done"}
AfterSign == {"sales summary", "lookups", "pivot", "done"}
AfterLabels == {"lookups", "pivot", "done"}

\* C1: when the SR upload has a row, the consolidated register is every SD row in
\* order followed by the SR rows from the second one on, so that
\* rows(consolidated) = rows(SD) + rows(SR) - 1.
C1_FirstReturnRowDropped ==
    (run.step \in AfterRead /\ Len(sr_file.rows) >= 1) =>
        LET sd == normalize_columns(read_excel(sd_file))
            sr == normalize_columns(read_excel(sr_file))
            cols == run.df_sales.columns
        IN  /\ Len(run.df_sales.rows) = Len(sd.rows) + Len(sr.rows) - 1
            /\ run.df_sales.rows = Reindex(sd, cols) \o Tail(Reindex(sr, cols))

\* C2: in every row of the GST Summary sheet of a finished workbook, the
\* Net Difference column shows GST Payable as per GL minus Difference as per TB.
C2_NetDifferenceIsGLMinusTB ==
    run.step = "done" =>
        LET ws == run.ws_sum IN
        /\ max_column(ws) = 4
        /\ ws.cells[1][4] = Str("Net Difference")
        /\ \A r \in 2..max_row(ws) :
              Shown(ws, ws.cells[r][4]) = Num(ws.cells[r][2].n - ws.cells[r][3].n)

\* C3: when the GL upload has no header containing "value", the run ends with an
\* error that names "GL Amount", the keyword and every column of the GL upload.
C3_MissingColumnReported ==
    LET cols == normalize_columns(read_excel(gl_file)).columns IN
    (run.step = "gl columns" /\ \A c \in 1..Len(cols) : ~Contains(Lower(cols[c]), "value")) =>
        /\ Contains(message, "GL Amount")
        /\ Contains(message, "value")
        /\ \A c \in 1..Len(cols) : Contains(message, cols[c])

\* Whether a finished workbook: the five sheets, the register with its added
\* columns, the summary with its Net Difference column, the pivot table.
FinalWorkbook(wb) ==
    /\ Len(wb.sheets) = 5
    /\ \E c \in 1..max_column(wb.sheets[1]) : wb.sheets[1].cells[1][c] = Str("Sales summary")
    /\ \E c \in 1..max_column(wb.sheets[1]) : wb.sheets[1].cells[1][c] = Str("GST Payable VLOOKUP")
    /\ \E c \in 1..max_column(wb.sheets[4]) : wb.sheets[4].cells[1][c] = Str("Net Difference")
    /\ wb.sheets[5].pivots # <<>>

\* C4: downloads are on offer only if some Process run completed, what is on offer
\* is finished workbooks only, and a run that failed has put nothing in its outputs.
C4_OffersOnlyAfterSuccess ==
    /\ DownloadsOffered => completed
    /\ downloads # {} => DownloadsOffered
    /\ \A o \in outputs : FinalWorkbook(o.wb)
    /\ run.step # "done" => run.outputs = {}

\* A run failed while composing the workbook, after an earlier run had completed:
\* the sheet it was working on exists, and the downloads on offer are finished.
C4_Witness ==
    /\ run.step = "sales summary"
    /\ run.ws_sales # NoSheet
    /\ DownloadsOffered
    /\ downloads # {}

\* C5: after a successful run with company code cc the outputs are the three files
\* cc_SD_SR_Consolidated.xlsx, cc_GSTR-1_Workbook.xlsx and cc_Summary.xlsx, and the
\* workbook's sheets are Sales register, Revenue, GST payable, GST Summary and
\* Sales summary pivot.
C5_ThreeFilesFiveSheets ==
    run.step = "done" =>
        /\ {o.name : o \in outputs} =
              {company_code \o "_SD_SR_Consolidated.xlsx",
               company_code \o "_GSTR-1_Workbook.xlsx",
               company_code \o "_Summary.xlsx"}
        /\ \A o \in outputs :
              o.name = company_code \o "_GSTR-1_Workbook.xlsx" =>
                 [i \in 1..Len(o.wb.sheets) |-> o.wb.sheets[i].title] =
                    <<"Sales register", "Revenue", "GST payable", "GST Summary",
                      "Sales summary pivot">>

\* Whether a tax rate cell is zero or empty.
ZeroRate(v) ==
    \/ v.t \in {"nan", "none"}
    \/ v.t = "num" /\ v.n = 0
    \/ v.t = "str" /\ IsDigits(v.s) /\ ParseNat(v.s) = 0

\* The label the rule table gives, in its priority order.
RuleLabel(it, dt, tr) ==
    CASE it = Str("SEWOP") -> "SEZWOP"
      [] it = Str("SEWP") -> "SEWP"
      [] it \notin {Str("SEWOP"), Str("SEWP")} /\ ZeroRate(tr) -> "Exempt supply"
      [] it = Str("B2B") /\ ~ZeroRate(tr) /\ dt = Str("C") -> "B2B Credit Notes"
      [] it = Str("B2B") /\ ~ZeroRate(tr) /\ dt # Str("C") -> "B2B Supplies"
      [] it = Str("B2CS") /\ ~ZeroRate(tr) -> "B2C Supplies"
      [] OTHER -> ""

C7_OnlyCreditNoteAmountsNegated ==
    run.step \in AfterSign =>
        LET df == run.df_sales IN
        \A r \in 1..Len(df.rows), c \in 1..Len(df.columns) :
            LET before == IF df.rows[r][c].t = "nan" THEN None ELSE df.rows[r][c]
                credit == At(df, df.rows[r], "Document Type") = Str("C")
                amount == df.columns[c] \in
                             {"Taxable value", "IGST Amt", "CGST Amt", "SGST/UTGST Amt"}
            IN  run.ws_sales.cells[r + 1][c] =
                   IF credit /\ amount /\ before.t = "num" THEN Num(0 - before.n) ELSE before

\* A finished run whose register has a credit note with a negated amount and an
\* amount that is not a number, and a row that is no credit note.
C7_Witness ==
    /\ run.step = "done"
    /\ \E r \in 1..Len(run.df_sales.rows) :
          /\ At(run.df_sales, run.df_sales.rows[r], "Document Type") = Str("C")
          /\ At(run.df_sales, run.df_sales.rows[r], "IGST Amt") = Str("NA")
          /\ At(run.df_sales, run.df_sales.rows[r], "SGST/UTGST Amt") = Num(-7)
          /\ run.ws_sales.cells[r + 1][ColumnPos(run.df_sales, "SGST/UTGST Amt")] = Num(7)
    /\ \E r \in 1..Len(run.df_sales.rows) :
          /\ At(run.df_sales, run.df_sales.rows[r], "Document Type") # Str("C")
          /\ At(run.df_sales, run.df_sales.rows[r], "Taxable value") = Num(100)

\* The GST Account Categories among the long texts of the rows (the long text is
\* the cell at position pos).
CategoriesIn(rows, pos) ==
    {rows[i][pos].s : i \in {j \in 1..Len(rows) : IsGstAccount(rows[j][pos])}}

RECURSIVE CreditLessDebit(_, _, _)
\* Credit - Debit summed over those of the first n rows of the trial balance df that
\* are of category cat.
CreditLessDebit(df, cat, n) ==
    IF n = 0 THEN 0
    ELSE (IF At(df, df.rows[n], "G/L Acct Long Text") = Str(cat)
          THEN At(df, df.rows[n], "Period C").n - At(df, df.rows[n], "Period D").n
          ELSE 0)
         + CreditLessDebit(df, cat, n - 1)

\* C8: the summary has exactly one row per GST Account Category of the GL upload,
\* none for a category of the TB upload alone, and a row's Difference as per TB is
\* the sum of Credit - Debit over the TB rows of its category (0 without such rows).
C8_OneRowPerGLCategory ==
    run.step \in AfterSummary =>
        LET rows == run.summary_df.rows
            cats == CategoriesIn(gl_file.rows, 2)
            tb == read_excel(tb_file)
        IN  /\ Len(rows) = Cardinality(cats)
            /\ {rows[i][1] : i \in 1..Len(rows)} = {Str(cat) : cat \in cats}
            /\ \A i \in 1..Len(rows) :
                  rows[i][3] = Num(CreditLessDebit(tb, rows[i][1].s, Len(tb.rows)))

DebitHeaders == {"Period D", "Period Debit"}
CreditHeaders == {"Period C", "Period Credit"}

\* C9: when the TB upload has one period-debit header and one period-credit header,
\* in either order, Debit resolves to the debit header and Credit to the credit
\* header, two different columns.
C9_DebitAndCreditDistinct ==
    LET cols == normalize_columns(read_excel(tb_file)).columns
        Count(S) == Cardinality({i \in 1..Len(cols) : cols[i] \in S})
    IN  (run.step \in AfterSummary /\ Count(DebitHeaders) = 1 /\ Count(CreditHeaders) = 1) =>
            /\ run.debit \in DebitHeaders
            /\ run.credit \in CreditHeaders
            /\ run.debit # run.credit

\* C10: a script run that does not complete the handler leaves processed and
\* outputs as they were, and a run that completes it sets processed and replaces
\* outputs by its own; the buttons rendered are those of the outputs held.
C10_FailedRunKeepsOutputs ==
    [][/\ run'.step # "done" => (processed' = processed /\ outputs' = outputs)
       /\ run'.step = "done" => (processed' /\ outputs' = run'.outputs)
       /\ downloads' \subseteq {o.name : o \in outputs'}]_vars

\* A run stopped for a missing input, or failed, after an earlier run completed:
\* the outputs of the earlier run are still held.
C10_Witness ==
    /\ run.step \in {"inputs", "gl columns", "tb columns", "sales summary"}
    /\ processed
    /\ outputs # {}

=============================================================================
